---- MODULE Spec2Model ----
(***************************************************************************)
(* Forward data flow of megatron/model/transformer.py: ParallelAttention,  *)
(* ParallelTransformerLayer and ParallelTransformerLayerPipe.              *)
(*                                                                         *)
(* Tensors are abstracted.  A hidden-state tensor is a record              *)
(* [val, shape]: val is one integer standing for its contents and shape    *)
(* is <<sequence length, batch>>.  Query, key and value layers are         *)
(* sequences (along the sequence-length axis) of entries                   *)
(* [src, tok, rot]: where the row was projected from, the absolute         *)
(* position of the token it was projected from, and the index of the       *)
(* cos/sin row it was rotated with (NoRot when it was not rotated).        *)
(***************************************************************************)
EXTENDS Integers, Sequences, FiniteSets, TLC

\* ------------------------------------------------------------------ bounds
MaxCtx == 2        \* tokens fed to one layer over a run
MaxNew == 2        \* new tokens in one forward call
MaxEnc == 2        \* encoder sequence length
MaxPast == 1       \* length of a cache the caller passes explicitly
MaxP == 2          \* model parallel world size
MaxArgs == 6       \* length of the tuple given to the pipeline layer
Batch == 2         \* batch size

NoRot == 0 - 1
NoVal == 0 - 1

\* ----------------------------------------------------------------- tensors
\* first: the absolute position of the tensor's first row (0 when the tensor
\* is no sequence); the code never reads it, it names the rows.
T(val, shape, first) == [val |-> val, shape |-> shape, first |-> first]
None == T(NoVal, <<>>, 0)
exists(t) == t # None

Entry(src, tok, rot) == [src |-> src, tok |-> tok, rot |-> rot]

\* layer_past / present: torch.stack((key_layer, value_layer)); NoPast is None.
Stack(k, v) == [set |-> TRUE, key |-> k, value |-> v]
NoPast == [set |-> FALSE, key |-> <<>>, value |-> <<>>]
numel(p) == Len(p.key) + Len(p.value)

RECURSIVE SumTo(_, _)
\* sum of f[0] .. f[n-1]
SumTo(f, n) == IF n = 0 THEN 0 ELSE f[n - 1] + SumTo(f, n - 1)

RECURSIVE Select(_, _, _)
\* the rows s[j], j in 1..n, with keep[j], in order
Select(s, keep, n) ==
  IF n = 0 THEN <<>>
  ELSE IF keep[n] THEN Append(Select(s, keep, n - 1), s[n])
       ELSE Select(s, keep, n - 1)

\* the value of a one-point function [name \in {value} |-> body]: the body
\* with a local variable bound to a value computed once
Only(f) == f[CHOOSE v \in DOMAIN f : TRUE]

Ev(mod, op, val) == [mod |-> mod, op |-> op, val |-> val]

\* --------------------------------------------------- external collaborators
\* mpu.ColumnParallelLinear (gather_output=False): one projected row per row
\* of the input, no communication.
ColumnParallelLinear(src, t) ==
  [i \in 1..t.shape[1] |-> Entry(src, t.first + i - 1, NoRot)]

\* mpu.RowParallelLinear (input_is_parallel, skip_bias_add): partial[w] is
\* worker w's local product; it is all-reduced unless parallel_output, and
\* the bias is returned un-added.
RowParallelLinear(partial, P, parallel_output, bias) ==
  [output |-> [w \in 0..(P - 1) |->
                 IF parallel_output THEN partial[w] ELSE SumTo(partial, P)],
   bias |-> bias,
   reduced |-> ~parallel_output]

\* apply_rotary_pos_emb / apply_rotary_pos_emb_torch: row i of t is rotated
\* with row offset + i of the cos/sin table.
apply_rotary_fn(t, offset) ==
  [i \in 1..Len(t) |-> [t[i] EXCEPT !.rot = offset + i - 1]]

\* get_bias_dropout_add with prob = 0: residual + (x + bias).
bias_dropout_fn(x, bias, residual) == residual + x + bias

\* the norm instances, told apart by their affine parameters
input_layernorm(v) == 2 * v + 1
post_attention_layernorm(v) == 3 * v + 2
post_cross_attention_layernorm(v) == 5 * v + 3

\* attention_mask_func on an abstract mask: val 1 is the causal mask (True
\* above the diagonal), val 0 masks nothing.  i, j are 1-based row, column.
Masked(mask, i, j) == mask.val = 1 /\ j > i

\* ------------------------------------------------------ ParallelAttention
\* the row of the supplied mask that is applied to query row i
MaskRow(use_cache, sq, sk, i) == i

\* the positional strategies that add a bias to the raw scores, dense path
ScoreBiases(rpe, pos_emb) ==
  (IF rpe THEN <<"rpe">> ELSE <<>>) \o (IF pos_emb = "alibi" THEN <<"alibi">> ELSE <<>>)

attention(a, query_layer, key_layer, value_layer, attention_mask) ==
  LET sq == Len(query_layer)
      sk == Len(key_layer)
      keep(i) == [j \in 1..sk |->
                    ~Masked(attention_mask, MaskRow(a.use_cache, sq, sk, i), j)]
  IN  [rows |-> [i \in 1..sq |->
                   [q |-> query_layer[i],
                    keys |-> Select(key_layer, keep(i), sk),
                    vals |-> Select(value_layer, keep(i), sk)]],
       biases |-> ScoreBiases(a.rpe, a.pos_emb),
       rpe_args |-> IF a.rpe THEN <<sq, sk>> ELSE <<>>,
       path |-> "attention",
       softmax |-> TRUE,
       dropout |-> TRUE]

sparse_attention(a, query_layer, key_layer, value_layer, attention_mask, b) ==
  LET sq == Len(query_layer)
      sk == Len(key_layer)
      keep(i) == [j \in 1..sk |-> ~Masked(attention_mask, i, j)]
  IN  [rows |-> [i \in 1..sq |->
                   [q |-> query_layer[i],
                    keys |-> Select(key_layer, keep(i), sk),
                    vals |-> Select(value_layer, keep(i), sk)]],
       biases |-> IF a.rpe THEN <<"rpe">> ELSE <<>>,
       \* size(0) of the permuted [b, np, sq, hn] layers
       rpe_args |-> IF a.rpe THEN <<b, b>> ELSE <<>>,
       path |-> "sparse_attention",
       softmax |-> FALSE,
       dropout |-> FALSE]

\* contents of the context layer, and worker w's share of dense(context)
ContextVal(is_cross, h, e, sk) == IF is_cross THEN 2 * h + 3 * e + sk ELSE h + sk
DensePartial(c, P) == [w \in 0..(P - 1) |-> (w + 1) * c]

RotaryOffsetZero(layer_past) == 0

\* the offset handed to the rotary function
RotaryOffset(layer_past) ==
  IF layer_past.set /\ numel(layer_past) > 0 THEN Len(layer_past.key) ELSE 0

CacheConcatPrepend(layer_past, past, new) ==
  IF layer_past.set /\ numel(layer_past) > 0 THEN new \o past ELSE new

\* key_layer / value_layer after the cache has been merged in
CacheConcat(layer_past, past, new) ==
  IF layer_past.set /\ numel(layer_past) > 0 THEN past \o new ELSE new

NoContext ==
  [rows |-> <<>>, biases |-> <<>>, rpe_args |-> <<>>, path |-> "none",
   softmax |-> FALSE, dropout |-> FALSE]

AttentionResult(status, events) ==
  [status |-> status, output |-> <<>>, bias |-> 0, present |-> NoPast,
   offset |-> 0, seq_len |-> 0, query |-> <<>>, new_key |-> <<>>,
   key |-> <<>>, value |-> <<>>, past |-> NoPast, ctx |-> NoContext,
   events |-> events]

\* the module was not called
NotRun == AttentionResult("none", <<>>)

\* ParallelAttention.forward.  a: the module's construction-time fields.
AttentionForward(a, hidden_states, attention_mask, encoder_hidden_states, layer_past) ==
  IF a.is_cross_attention /\ ~exists(encoder_hidden_states)
  THEN \* self.key_value(None) is the first statement reached: no assertion
       AttentionResult("error", <<Ev(a.name, "key_value", NoVal)>>)
  ELSE
  LET kv_in == IF a.is_cross_attention THEN encoder_hidden_states ELSE hidden_states
      offset == IF a.rotary THEN RotaryOffset(layer_past) ELSE 0
      b == hidden_states.shape[2]
  IN
  Only([query0 \in {ColumnParallelLinear("x", hidden_states)} |->
  Only([key0 \in {ColumnParallelLinear(IF a.is_cross_attention THEN "enc" ELSE "x", kv_in)} |->
  Only([query_layer \in {IF a.rotary THEN apply_rotary_fn(query0, offset) ELSE query0} |->
  Only([key1 \in {IF a.rotary THEN apply_rotary_fn(key0, offset) ELSE key0} |->
  Only([key_layer \in {CacheConcat(layer_past, layer_past.key, key1)} |->
  Only([value_layer \in {CacheConcat(layer_past, layer_past.value, key0)} |->
  Only([ctx \in {IF ~a.sparse
       THEN attention(a, query_layer, key_layer, value_layer, attention_mask)
       ELSE sparse_attention(a, query_layer, key_layer, value_layer,
                             attention_mask, b)} |->
  Only([c \in {ContextVal(a.is_cross_attention, hidden_states.val, kv_in.val,
                  Len(key_layer))} |->
  Only([dense \in {RowParallelLinear(DensePartial(c, a.world_size), a.world_size,
                         a.parallel_output, a.bias)} |->
    [status |-> "ok", output |-> dense.output, bias |-> dense.bias,
     present |-> IF a.use_cache THEN Stack(key_layer, value_layer) ELSE NoPast,
     offset |-> offset,
     seq_len |-> IF a.rotary THEN Len(key0) + offset ELSE 0,
     query |-> query_layer, new_key |-> key1,
     key |-> key_layer, value |-> value_layer, past |-> layer_past,
     ctx |-> ctx,
     events |->
       (IF a.is_cross_attention
        THEN <<Ev(a.name, "key_value", kv_in.val),
               Ev(a.name, "query", hidden_states.val)>>
        ELSE <<Ev(a.name, "query_key_value", hidden_states.val)>>)
       \o (IF a.rotary THEN <<Ev(a.name, "rotary", offset)>> ELSE <<>>)
       \o <<Ev(a.name, ctx.path, Len(key_layer)), Ev(a.name, "dense", c)>>
       \o (IF dense.reduced THEN <<Ev(a.name, "all_reduce", c)>> ELSE <<>>)]
  ])])])])])])])])])

\* ------------------------------------------------------------ ParallelMLP
MLPForward(self, v) ==
  Only([dense_4h_to_h \in {RowParallelLinear(DensePartial(4 * v + 1, self.world_size),
                         self.world_size, self.gpt_j_residual, self.bias.mlp)} |->
    [output |-> dense_4h_to_h.output, bias |-> dense_4h_to_h.bias,
     events |-> <<Ev("mlp", "dense_h_to_4h", v),
                  Ev("mlp", "dense_4h_to_h", 4 * v + 1)>>
                \o (IF dense_4h_to_h.reduced
                    THEN <<Ev("mlp", "all_reduce", 4 * v + 1)>> ELSE <<>>)]])

\* ----------------------------------------------- ParallelTransformerLayer
do_crossattn(self) == self.layer_type = "decoder" /\ self.model_arch = "t5"

SparseOnlyLocal(attention_type) == attention_type = "local"

\* self.sparse of ParallelAttention.__init__
Sparse(attention_type) == attention_type # "global"

AttentionModuleReducing(self, is_cross) ==
  [name |-> IF is_cross THEN "cross_attention" ELSE "attention",
   is_cross_attention |-> is_cross,
   use_cache |-> self.use_cache, rotary |-> self.rotary, rpe |-> self.rpe,
   pos_emb |-> self.pos_emb, sparse |-> Sparse(self.attention_type),
   world_size |-> self.world_size,
   parallel_output |-> FALSE,
   bias |-> IF is_cross THEN self.bias.cross_attention ELSE self.bias.attention]

\* the fields ParallelTransformerLayer.__init__ hands to a ParallelAttention
AttentionModule(self, is_cross) ==
  [name |-> IF is_cross THEN "cross_attention" ELSE "attention",
   is_cross_attention |-> is_cross,
   use_cache |-> self.use_cache, rotary |-> self.rotary, rpe |-> self.rpe,
   pos_emb |-> self.pos_emb, sparse |-> Sparse(self.attention_type),
   world_size |-> self.world_size,
   parallel_output |-> self.gpt_j_residual,
   bias |-> IF is_cross THEN self.bias.cross_attention ELSE self.bias.attention]

\* self.layer_past after a sublayer returned: written only in use-cache mode
StorePresent(use_cache, old, present) == IF use_cache THEN present ELSE old

\* the layer_past argument each attention sublayer is called with
PastUsed(layer_past_arg, self_layer_past) ==
  IF layer_past_arg.set THEN layer_past_arg ELSE self_layer_past

ln2Shared(self, v) == post_attention_layernorm(v)

\* the normalization instance in front of the MLP
ln2(self, v) ==
  IF ~do_crossattn(self) THEN post_attention_layernorm(v)
  ELSE post_cross_attention_layernorm(v)

CrossInputOriginal(gpt_j_residual, x, attention_output) == x

\* what the cross-attention and the MLP read: the original input in the
\* parallel topology, the running residual in the sequential one
CrossInput(gpt_j_residual, x, attention_output) ==
  IF gpt_j_residual THEN x ELSE attention_output
MLPInput(gpt_j_residual, x, residual) ==
  IF gpt_j_residual THEN x ELSE residual

LayerResult(status, output, past, att, cross, events) ==
  [status |-> status, output |-> output, layer_past |-> past,
   attention |-> att, cross_attention |-> cross, events |-> events]

\* ParallelTransformerLayer.forward; self_layer_past is self.layer_past
LayerForward(self, self_layer_past, x, attention_mask, encoder_hidden_states, encoder_attention_mask, layer_past_arg) ==
  LET P == self.world_size
      W == 0..(P - 1)
      gptj == self.gpt_j_residual
      cross_on == do_crossattn(self)
      layer_past == PastUsed(layer_past_arg, self_layer_past)
      H(v) == T(v, x.shape, x.first)
      residual == x.val
  IN
  \* attention_output, attention_bias = self.attention(self.input_layernorm(x), ...)
  Only([att \in {AttentionForward(AttentionModule(self, FALSE), H(input_layernorm(x.val)),
                        attention_mask, None, layer_past)} |->
  Only([past1 \in {StorePresent(self.use_cache, self_layer_past, att.present)} |->
  \* gpt-j: residual=None; sequential: residual=residual
  Only([attention_output \in {[w \in W |-> bias_dropout_fn(att.output[w], att.bias,
                                    IF gptj THEN 0 ELSE residual)]} |->
  Only([cross_in \in {CrossInput(gptj, x.val, attention_output[0])} |->
  Only([cross \in {IF cross_on
       THEN AttentionForward(AttentionModule(self, TRUE),
                             H(post_attention_layernorm(cross_in)),
                             encoder_attention_mask, encoder_hidden_states,
                             layer_past)
       ELSE NotRun} |->
  Only([ev1 \in {<<Ev("layer", "input_layernorm", x.val)>> \o att.events
       \o <<Ev("layer", "bias_dropout_add", att.bias)>>
       \o (IF cross_on
           THEN <<Ev("layer", "post_attention_layernorm", cross_in)>>
                \o cross.events
           ELSE <<>>)} |->
  IF cross.status = "error"
  THEN LayerResult("error", <<>>, past1, att, cross, ev1)
  ELSE
  \* attn_output (gpt-j) / residual (sequential) in front of the MLP
  Only([residual1 \in {[w \in W |-> IF cross_on
                    THEN bias_dropout_fn(cross.output[w], cross.bias,
                                         attention_output[w])
                    ELSE attention_output[w]]} |->
  Only([mlp_in \in {MLPInput(gptj, x.val, residual1[0])} |->
  Only([mlp \in {MLPForward(self, ln2(self, mlp_in))} |->
  Only([mlp_output \in {[w \in W |-> bias_dropout_fn(mlp.output[w], mlp.bias, residual1[w])]} |->
    LayerResult("ok",
      \* output = residual + self.reduce(output)
      IF gptj THEN [w \in W |-> residual + SumTo(mlp_output, P)] ELSE mlp_output,
      IF cross_on THEN StorePresent(self.use_cache, past1, cross.present) ELSE past1,
      att, cross,
      ev1
      \o (IF cross_on
          THEN <<Ev("layer", "bias_dropout_add", cross.bias),
                 Ev("layer", "post_cross_attention_layernorm", mlp_in)>>
          ELSE <<Ev("layer", "post_attention_layernorm", mlp_in)>>)
      \o mlp.events
      \o <<Ev("layer", "bias_dropout_add", mlp.bias)>>
      \o (IF gptj
          THEN <<Ev("layer", "reduce", mlp_output[0]),
                 Ev("layer", "add_residual", residual)>>
          ELSE <<>>))
  ])])])])])])])])])])

\* ------------------------------------------- ParallelTransformerLayerPipe
RECURSIVE Numel(_)
Numel(shape) == IF shape = <<>> THEN 1 ELSE Head(shape) * Numel(Tail(shape))

\* t.view(b, -1)
View(t, b) == T(t.val, <<b, Numel(t.shape) \div b>>, t.first)

NotCalled == LayerResult("none", <<>>, NoPast, NotRun, NotRun, <<>>)

PipeResult(outcome, ret, inner) == [outcome |-> outcome, ret |-> ret, inner |-> inner]

\* the arity each variant asserts; 0 when the variant has no branch
PipeArity(self) ==
  IF self.model_arch = "t5"
  THEN IF self.layer_type = "encoder" THEN 5
       ELSE IF self.layer_type = "decoder" THEN 4 ELSE 0
  ELSE 2

PipeDoneStale(r, hidden_states, rest) ==
  IF r.status = "ok" THEN PipeResult("tuple", <<hidden_states>> \o rest, r)
  ELSE PipeResult("error", <<>>, r)

\* ParallelTransformerLayerPipe.forward.  outcome is "tuple" (ret is the
\* returned tuple), "None" (the method fell through), "AssertionError" or
\* "error" (the delegated forward raised).
PipeDone(r, hidden_states, rest) ==
  IF r.status = "ok"
  THEN PipeResult("tuple",
                  <<T(r.output[0], hidden_states.shape, hidden_states.first)>> \o rest,
                  r)
  ELSE PipeResult("error", <<>>, r)

PipeForward(self, self_layer_past, args) ==
  IF self.model_arch = "t5"
  THEN IF self.layer_type = "encoder"
       THEN IF Len(args) # 5 THEN PipeResult("AssertionError", <<>>, NotCalled)
            ELSE LET hidden_states == args[1]
                     fix == args[2].shape[1] # hidden_states.shape[2]
                     decoder_input_ids ==
                       IF fix THEN View(args[2], hidden_states.shape[2]) ELSE args[2]
                     decoder_position_ids ==
                       IF fix THEN View(args[3], hidden_states.shape[2]) ELSE args[3]
                 IN  Only([r \in {LayerForward(self, self_layer_past, hidden_states,
                                       args[4], None, None, NoPast)} |->
                       PipeDone(r, hidden_states,
                                <<decoder_input_ids, decoder_position_ids,
                                  args[4], args[5]>>)])
       ELSE IF self.layer_type = "decoder"
       THEN IF Len(args) # 4 THEN PipeResult("AssertionError", <<>>, NotCalled)
            ELSE Only([r \in {LayerForward(self, self_layer_past, args[1], args[4],
                                   args[2], args[3], NoPast)} |->
                   PipeDone(r, args[1], <<args[2], args[3], args[4]>>)])
       ELSE PipeResult("None", <<>>, NotCalled)
  ELSE IF Len(args) # 2 THEN PipeResult("AssertionError", <<>>, NotCalled)
       ELSE Only([r \in {LayerForward(self, self_layer_past, args[1], args[2],
                              None, None, NoPast)} |->
              PipeDone(r, args[1], <<args[2]>>)])

\* ------------------------------------------------------------------ state
VARIABLES
  self,        \* the layer's construction-time fields
  layer_past,  \* self.layer_past
  fed,         \* tokens handed to the layer so far
  calls,       \* forward calls so far
  clean,       \* every call so far: one new token, no layer_past argument, no error
  call,        \* the last call: its arguments and what it did
  ctx,         \* the context length of the run: the caller feeds no more tokens
  worker       \* per model-parallel rank: its place in the last call

vars == <<self, layer_past, fed, calls, clean, call, ctx, worker>>

\* the ranks of the model-parallel group; each enters a forward call at the
\* first step of its program
Workers == 0..(self.world_size - 1)
Entered == [w \in Workers |-> [pc |-> 1, waiting |-> FALSE]]

\* contents of the weights and of the hidden states
NoBias == [attention |-> 0, cross_attention |-> 0, mlp |-> 0]
Biases == {NoBias, [attention |-> 1, cross_attention |-> 2, mlp |-> 4]}
Hidden == {0, 1}

\* neox_args.attention_config[layer_number]
AttentionTypes == {"global", "local", "sparse_fixed"}

Configs ==
  [gpt_j_residual : BOOLEAN, model_arch : {"gpt", "t5"},
   layer_type : {"encoder", "decoder", "other"}, use_cache : BOOLEAN,
   rotary : BOOLEAN, rpe : BOOLEAN, pos_emb : {"learned", "rotary", "alibi", "rpe"},
   attention_type : AttentionTypes, world_size : 1..MaxP,
   bias : Biases]


Mask(val, kind) == T(val, <<kind>>, 0)
Masks == {Mask(v, 1) : v \in 0..1}
EncoderStates == {None} \cup {T(e, <<e, Batch>>, 0) : e \in 1..MaxEnc}
\* a layer without cross-attention is called without encoder states
EncoderArgs == IF do_crossattn(self) THEN EncoderStates ELSE {None}

\* a cache the caller built itself
CallerPast(n, rot) ==
  LET k == [j \in 1..n |-> Entry("past", j - 1, IF rot THEN j - 1 ELSE NoRot)]
      v == [j \in 1..n |-> Entry("past", j - 1, NoRot)]
  IN  Stack(k, v)
PastArgs(rot) == {NoPast} \cup {CallerPast(n, rot) : n \in 0..MaxPast}

NoCall ==
  [op |-> "none", x |-> None, attention_mask |-> None,
   encoder_hidden_states |-> None, layer_past_arg |-> NoPast, before |-> NoPast,
   res |-> NotCalled, args |-> <<>>, outcome |-> "none", ret |-> <<>>]

InitWith(C, L) ==
  /\ self \in C
  /\ ctx \in L
  /\ layer_past = NoPast
  /\ fed = 0
  /\ calls = 0
  /\ clean = TRUE
  /\ call = NoCall
  /\ worker = Entered

\* a direct call of ParallelTransformerLayer.forward
Forward ==
  \E n \in 1..MaxNew, h \in Hidden, m \in Masks, enc \in EncoderArgs,
     past \in PastArgs(self.rotary) :
    /\ fed + n <= ctx
    /\ \E r \in {LayerForward(self, layer_past, T(h, <<n, Batch>>, fed), m, enc,
                              Mask(0, 2), past)} :
         /\ layer_past' = r.layer_past
         /\ clean' = (clean /\ n = 1 /\ ~past.set /\ r.status = "ok")
         /\ call' = [op |-> "forward", x |-> T(h, <<n, Batch>>, fed),
                     attention_mask |-> m, encoder_hidden_states |-> enc,
                     layer_past_arg |-> past, before |-> layer_past, res |-> r,
                     args |-> <<>>, outcome |-> r.status, ret |-> <<>>]
    /\ fed' = fed + n
    /\ calls' = calls + 1
    /\ worker' = Entered
    /\ UNCHANGED <<self, ctx>>

\* the tuple a pipeline stage hands on, for the variant of the layer, cut or
\* padded to length len
PipeArgs(variant, len, x, m, enc, flat) ==
  LET ids(v) == T(v, IF flat THEN <<Batch * x.shape[1]>> ELSE <<Batch, x.shape[1]>>, 0)
      full == IF variant = 5
              THEN <<x, ids(7), ids(8), Mask(0, 2), Mask(m, 1)>>
              ELSE IF variant = 2 THEN <<x, Mask(m, 1)>>
              ELSE <<x, enc, Mask(0, 2), Mask(m, 1)>>
  IN  [i \in 1..len |-> IF i <= Len(full) THEN full[i] ELSE T(90 + i, <<>>, 0)]

\* a call of ParallelTransformerLayerPipe.forward by the pipeline
PipeCall ==
  \E len \in 0..MaxArgs, n \in 1..MaxNew, h \in Hidden, m \in 0..1,
     e \in IF do_crossattn(self) THEN 1..MaxEnc ELSE {1},
     flat \in IF PipeArity(self) = 5 THEN BOOLEAN ELSE {FALSE} :
    /\ fed + n <= ctx
    /\ \E args \in {PipeArgs(PipeArity(self), len, T(h, <<n, Batch>>, fed), m,
                             T(e, <<e, Batch>>, 0), flat)} :
       \E p \in {PipeForward(self, layer_past, args)} :
         /\ layer_past' = IF p.inner.status = "none" THEN layer_past
                          ELSE p.inner.layer_past
         /\ clean' = (clean /\ n = 1 /\ p.outcome = "tuple")
         /\ call' = [op |-> "pipe", x |-> T(h, <<n, Batch>>, fed),
                     attention_mask |-> Mask(m, 1),
                     encoder_hidden_states |-> None, layer_past_arg |-> NoPast,
                     before |-> layer_past, res |-> p.inner, args |-> args,
                     outcome |-> p.outcome, ret |-> p.ret]
    /\ fed' = fed + n
    /\ calls' = calls + 1
    /\ worker' = Entered
    /\ UNCHANGED <<self, ctx>>

\* ------------------------------------------------------- the worker group
\* the steps rank w executes in the last call: forward has no branch on the
\* rank, every rank runs the same statements on its own shard
WorkerProgramRankZero(w) ==
  IF w = 0 THEN call.res.events
  ELSE SelectSeq(call.res.events, LAMBDA e : e.op # "all_reduce")

WorkerProgram(w) == call.res.events

\* a collective-communication point: the all-reduce of a row-split
\* projection, or the layer's reduce_from_model_parallel_region
Collective(e) == e.op \in {"all_reduce", "reduce"}

RECURSIVE NextCollective(_, _)
\* the first collective point of prog at or after step i; Len(prog) + 1 if none
NextCollective(prog, i) ==
  IF i > Len(prog) \/ Collective(prog[i]) THEN i ELSE NextCollective(prog, i + 1)

\* the collective points rank w has left behind
Passed(w) ==
  Cardinality({j \in 1..(worker[w].pc - 1) : Collective(WorkerProgram(w)[j])})

Done(w) == worker[w].pc > Len(WorkerProgram(w))
AllDone == \A w \in Workers : Done(w)

\* rank w runs its local statements up to its next collective point and
\* enters it, or up to the end of the call
Run(w) ==
  /\ w \in Workers
  /\ ~Done(w) /\ ~worker[w].waiting
  /\ \E j \in {NextCollective(WorkerProgram(w), worker[w].pc)} :
       worker' = [worker EXCEPT ![w] = [pc |-> j,
                                       waiting |-> j <= Len(WorkerProgram(w))]]
  /\ UNCHANGED <<self, layer_past, fed, calls, clean, call, ctx>>

\* rank w leaves the collective it is in: every peer has entered its
\* collective of the same ordinal (or has already left it)
Pass(w) ==
  /\ w \in Workers
  /\ worker[w].waiting
  /\ \A v \in Workers :
       \/ Passed(v) > Passed(w)
       \/ worker[v].waiting /\ Passed(v) = Passed(w)
  /\ worker' = [worker EXCEPT ![w] = [pc |-> worker[w].pc + 1, waiting |-> FALSE]]
  /\ UNCHANGED <<self, layer_past, fed, calls, clean, call, ctx>>

\* the group is called again only when every rank has returned
GroupForward == AllDone /\ Forward

\* ----------------------------------------------------------- specifications
\* incremental decoding: one worker, no biases, dense attention
CacheConfigs ==
  {c \in Configs : /\ c.world_size = 1 /\ c.bias = NoBias /\ ~c.rpe /\ c.attention_type = "global"
                   /\ c.layer_type = "decoder"
                   /\ c.pos_emb = (IF c.rotary THEN "rotary" ELSE "learned")}
Init == InitWith(CacheConfigs, {MaxCtx})
Next == Forward
Spec == Init /\ [][Next]_vars

\* tensor parallelism: P workers, biases, both residual topologies
ParallelConfigs ==
  {c \in Configs : /\ ~c.rotary /\ ~c.rpe /\ c.attention_type = "global" /\ c.pos_emb = "learned"
                   /\ c.layer_type = "decoder" /\ ~c.use_cache}
InitParallel == InitWith(ParallelConfigs, {1})
SpecParallel == InitParallel /\ [][Next]_vars

\* positional strategies: every (rpe, pos_emb, rotary) the constructor accepts,
\* dense and sparse attention
PositionalConfigs ==
  {c \in Configs : /\ c.world_size = 1 /\ c.bias = NoBias /\ ~c.gpt_j_residual
                   /\ c.layer_type = "decoder" /\ ~c.use_cache}
InitPositional == InitWith(PositionalConfigs, {1})
SpecPositional == InitPositional /\ [][Next]_vars

\* the pipeline adapter: every architecture / layer type
PipeConfigs ==
  {c \in Configs : /\ c.world_size = 1 /\ c.bias = NoBias /\ ~c.rpe /\ c.attention_type = "global"
                   /\ ~c.rotary /\ c.pos_emb = "learned" /\ ~c.gpt_j_residual}
InitPipe == InitWith(PipeConfigs, {MaxCtx})
NextPipe == PipeCall
SpecPipe == InitPipe /\ [][NextPipe]_vars

\* the worker group: P ranks, both topologies, with and without
\* cross-attention; every rank keeps running
LockstepConfigs ==
  {c \in Configs : /\ ~c.rotary /\ ~c.rpe /\ c.attention_type = "global" /\ c.pos_emb = "learned"
                   /\ c.layer_type = "decoder" /\ ~c.use_cache /\ c.bias = NoBias}
InitLockstep == InitWith(LockstepConfigs, {1})
NextLockstep == GroupForward \/ \E w \in 0..(MaxP - 1) : Run(w) \/ Pass(w)
SpecLockstep ==
  /\ InitLockstep /\ [][NextLockstep]_vars
  /\ \A w \in 0..(MaxP - 1) : WF_vars(Run(w) \/ Pass(w))

\* ------------------------------------------------------------------ claims
CausalMask == Mask(1, 1)

\* the attention rows of one full-sequence call over tokens 0..N-1, without
\* a cache, under the causal mask
FullPassRows(N) ==
  AttentionForward(AttentionModule(self, FALSE), T(0, <<N, Batch>>, 0),
                   CausalMask, None, NoPast).ctx.rows

\* C1: in use-cache mode, after k clean one-token calls from an empty cache
\* the stored cache has sequence length k, whatever the layer configuration.
C1_CacheLengthIsCalls ==
  (self.use_cache /\ clean /\ calls >= 1) => Len(layer_past.key) = calls

\* C2: in use-cache mode, the step that processes token k-1 under the causal
\* mask computes the same attention row (query rotation, attended keys with
\* their rotations, attended values) as row k of the full-sequence pass.
\* Stated for layers without cross-attention, whose cache C1 leaves intact.
C2_StepEqualsFullPass ==
  (/\ self.use_cache /\ ~do_crossattn(self) /\ clean /\ calls >= 1
   /\ call.attention_mask = CausalMask)
  => call.res.attention.ctx.rows[1] = FullPassRows(fed)[fed]

AttentionCalls == {call.res.attention, call.res.cross_attention}

\* C3: in every attention call of a rotary layer the offset is the length of
\* the supplied cache (0 without one), the table is requested for new key
\* length + offset, new query and key row i is rotated with index offset + i,
\* and a row appended to a cache holding positions 0..p-1 is rotated with p.
C3_RotaryOffset ==
  \A r \in AttentionCalls :
    (self.rotary /\ r.status = "ok") =>
      /\ r.offset = (IF r.past.set /\ Len(r.past.key) > 0
                     THEN Len(r.past.key) ELSE 0)
      /\ r.seq_len = Len(r.new_key) + r.offset
      /\ \A i \in 1..Len(r.query) : r.query[i].rot = r.offset + i - 1
      /\ \A i \in 1..Len(r.new_key) : r.new_key[i].rot = r.offset + i - 1
      /\ (r.past.set /\ Len(r.past.key) > 0) =>
           \A i \in 1..Len(r.query) : r.query[i].rot > 0
      /\ (r = call.res.attention /\ Len(r.past.key) = call.x.first) =>
           \A i \in 1..Len(r.query) : r.query[i].rot = r.query[i].tok

\* C3 witness: a rotary self-attention call appended the token at position
\* p > 0 to a cache of length p.
C3_Witness ==
  /\ self.rotary /\ call.res.attention.status = "ok"
  /\ Len(call.res.attention.past.key) > 0
  /\ call.x.first = Len(call.res.attention.past.key)
  /\ call.res.attention.query[1].rot = call.x.first

\* C7: a layer built with use_cache=False uses only the current call's keys
\* and values, whatever layer_past the caller passes, and never writes
\* self.layer_past.
C7_NoCacheOutsideUseCache ==
  (~self.use_cache /\ call.res.attention.status = "ok") =>
    /\ call.res.attention.key = call.res.attention.new_key
    /\ call.res.attention.value = [i \in 1..Len(call.res.attention.query) |->
                                     [call.res.attention.query[i] EXCEPT !.rot = NoRot]]
    /\ layer_past = NoPast

\* the unsplit sublayers: the row-split projection summed over the workers,
\* its bias added once
UnsplitAttention(is_cross, v, mask, enc, past) ==
  LET a == [AttentionModule(self, is_cross) EXCEPT !.parallel_output = FALSE]
      r == AttentionForward(a, T(v, call.x.shape, call.x.first), mask, enc, past)
  IN  r.output[0] + r.bias
UnsplitMLP(v) ==
  LET r == MLPForward([self EXCEPT !.gpt_j_residual = FALSE], v)
  IN  r.output[0] + r.bias

SelfAttn(v) ==
  UnsplitAttention(FALSE, v, call.attention_mask, None, call.res.attention.past)
CrossAttn(v) ==
  UnsplitAttention(TRUE, v, Mask(0, 2), call.encoder_hidden_states,
                   call.res.cross_attention.past)
LN2(v) == IF do_crossattn(self) THEN post_cross_attention_layernorm(v)
          ELSE post_attention_layernorm(v)

Completed == call.op = "forward" /\ call.res.status = "ok"

\* C4: in the parallel topology every worker's output equals the unsplit
\* h + SelfAttn(LN1(h)) + [CrossAttn(LN1.5(h)) +] MLP(LN2(h)) with each
\* row-split projection's bias added exactly once, for every partition count.
C4_PartitionEquivalence ==
  (self.gpt_j_residual /\ Completed) =>
    LET h == call.x.val
    IN  \A w \in Workers :
          call.res.output[w] =
            h + SelfAttn(input_layernorm(h))
              + (IF do_crossattn(self) THEN CrossAttn(post_attention_layernorm(h))
                 ELSE 0)
              + UnsplitMLP(LN2(h))

\* the value a sublayer's first projection was applied to
ReadBy(mod, op) ==
  {call.res.events[i].val : i \in {j \in 1..Len(call.res.events) :
      call.res.events[j].mod = mod /\ call.res.events[j].op = op}}

\* C5: in the sequential topology h1 = h + SelfAttn(LN1(h)), with
\* cross-attention h1 = h1 + CrossAttn(LN1.5(h1), encoder_states), and
\* out = h1 + MLP(LN2(h1)): every sublayer reads the normalized running
\* residual and its output is added to that same residual.
C5_SequentialResidual ==
  (~self.gpt_j_residual /\ Completed) =>
    LET h == call.x.val
        h1 == h + SelfAttn(input_layernorm(h))
        h2 == IF do_crossattn(self)
              THEN h1 + CrossAttn(post_attention_layernorm(h1)) ELSE h1
    IN  /\ \A w \in Workers : call.res.output[w] = h2 + UnsplitMLP(LN2(h2))
        /\ ReadBy("attention", "query_key_value") = {input_layernorm(h)}
        /\ do_crossattn(self) =>
             ReadBy("cross_attention", "query") = {post_attention_layernorm(h1)}
        /\ ReadBy("mlp", "dense_h_to_4h") = {LN2(h2)}

\* C5 witness: a sequential layer with cross-attention completed a call on
\* two workers with non-zero biases.
C5_Witness ==
  /\ ~self.gpt_j_residual /\ Completed /\ do_crossattn(self)
  /\ self.world_size = 2 /\ self.bias # NoBias
  /\ call.res.cross_attention.status = "ok"

ReduceEvents ==
  {i \in 1..Len(call.res.events) : call.res.events[i].op \in {"reduce", "all_reduce"}}

\* C6: in the parallel topology self-attention, cross-attention and the MLP
\* each read a normalized form of the original input h, and a forward call
\* performs exactly one partition-reduce: the layer's own, after the last
\* sublayer output has been summed and directly before h is added; no output
\* projection reduces.
C6_ParallelSingleReduce ==
  (self.gpt_j_residual /\ Completed) =>
    LET h == call.x.val
        ev == call.res.events
        n == Len(ev)
    IN  /\ ReadBy("attention", "query_key_value") = {input_layernorm(h)}
        /\ do_crossattn(self) =>
             ReadBy("cross_attention", "query") = {post_attention_layernorm(h)}
        /\ ReadBy("mlp", "dense_h_to_4h") = {LN2(h)}
        /\ ReduceEvents = {n - 1}
        /\ ev[n - 1] = Ev("layer", "reduce", ev[n - 1].val)
        /\ ev[n] = Ev("layer", "add_residual", h)
        /\ ev[n - 2].op = "bias_dropout_add"
        /\ \A i \in 1..n : ev[i].op = "bias_dropout_add" => i <= n - 2

\* C6 witness: a parallel-topology layer with cross-attention completed a
\* call on two workers.
C6_Witness ==
  /\ self.gpt_j_residual /\ Completed /\ do_crossattn(self)
  /\ self.world_size = 2
  /\ call.res.cross_attention.status = "ok"

\* C8: in every attention call at most one positional strategy adds a bias
\* to the raw attention scores, for every (rpe, pos_emb, rotary) the
\* constructor accepts.
C8_AtMostOneScoreBias ==
  \A r \in AttentionCalls : r.status = "ok" => Len(r.ctx.biases) <= 1

Projections == {"query_key_value", "key_value", "query", "dense",
                "dense_h_to_4h", "dense_4h_to_h"}

\* C9: a layer with cross-attention called without encoder hidden states
\* fails with an assertion failure, raised before any projection is computed.
C9_AssertsWithoutEncoderStates ==
  (do_crossattn(self) /\ call.op = "forward" /\ ~exists(call.encoder_hidden_states))
  => /\ call.outcome = "AssertionError"
     /\ \A i \in 1..Len(call.res.events) : call.res.events[i].op \notin Projections

\* C10: the pipeline layer fails with an assertion for every tuple whose
\* length differs from its variant's (2 decoder-only, 5 encoder, 4 decoder of
\* an encoder-decoder), and for every architecture / layer type it either
\* fails or returns a tuple.
C10_PipeArityFatal ==
  call.op = "pipe" =>
    /\ (PipeArity(self) # 0 /\ Len(call.args) # PipeArity(self))
         => call.outcome = "AssertionError"
    /\ call.outcome \in {"AssertionError", "error", "tuple"}

\* a pipeline call whose tuple passed its variant's arity assertion
Accepted ==
  call.op = "pipe" /\ PipeArity(self) # 0 /\ Len(call.args) = PipeArity(self)

Reviewed(i) ==
  /\ PipeArity(self) = 5 /\ i \in {2, 3}
  /\ call.args[2].shape[1] # call.args[1].shape[2]

CollectiveSeq(prog) ==
  LET c == SelectSeq(prog, Collective)
  IN  [i \in 1..Len(c) |-> <<c[i].mod, c[i].op>>]

\* the collective points the configuration alone prescribes: one all-reduce
\* after each row-split projection in the sequential topology, the single
\* reduce of the residual summation in the parallel one
CollectivePlan ==
  IF self.gpt_j_residual THEN << <<"layer", "reduce">> >>
  ELSE << <<"attention", "all_reduce">> >>
       \o (IF do_crossattn(self) THEN << <<"cross_attention", "all_reduce">> >>
           ELSE <<>>)
       \o << <<"mlp", "all_reduce">> >>

\* every rank's collective points are the same sequence, which for a call
\* that returns is the one the configuration prescribes; a rank that has left
\* its k-th collective point has every peer inside or beyond its k-th
LockstepInv ==
  \A w \in Workers :
    /\ \A v \in Workers :
         /\ CollectiveSeq(WorkerProgram(w)) = CollectiveSeq(WorkerProgram(v))
         /\ \/ Passed(v) >= Passed(w)
            \/ Passed(v) = Passed(w) - 1 /\ worker[v].waiting
    /\ call.res.status = "ok" => CollectiveSeq(WorkerProgram(w)) = CollectivePlan

\* C12: for a fixed configuration every rank reaches the same sequence of
\* collective points, determined by the configuration and not by the rank or
\* the data; no rank is past a collective point its peers have not entered;
\* and once the ranks have started a call every rank eventually returns.
C12_CollectiveLockstep ==
  [](LockstepInv) /\ ((call.op = "forward") ~> AllDone)

\* C12 witness: two ranks of a sequential layer with cross-attention have
\* both returned from a call after three all-reduce points.
C12_Witness ==
  /\ self.world_size = 2 /\ ~self.gpt_j_residual /\ call.res.status = "ok"
  /\ AllDone /\ \A w \in Workers : Passed(w) = 3

\* C13: in use-cache mode the cached length held for the layer never exceeds
\* the maximum context length, here for a caller that feeds one token per
\* call, never more than the context length in all, and passes no cache of
\* its own.
C13_CacheWithinContext ==
  (self.use_cache /\ clean) =>
    Len(layer_past.key) <= ctx /\ Len(layer_past.value) <= ctx

\* C14: in every cross-attention call the keys and values are exactly the
\* projection of the supplied encoder hidden states, one row per encoder
\* position, with no cache row among them, and in use-cache mode the cache
\* stored for the layer after the call is the self-attention's.
C14_CrossKeysAreEncoderStates ==
  (call.op = "forward" /\ call.res.cross_attention.status = "ok") =>
    LET c == call.res.cross_attention
        enc == call.encoder_hidden_states
    IN  /\ Len(c.key) = enc.shape[1] /\ Len(c.value) = enc.shape[1]
        /\ \A i \in 1..Len(c.key) :
             /\ c.key[i].src = "enc" /\ c.key[i].tok = i - 1
             /\ c.value[i] = Entry("enc", i - 1, NoRot)
        /\ self.use_cache => layer_past = call.res.attention.present

\* C15: whenever an rpe callable is configured it is invoked with
\* (query length, key length) of the call, on the dense path and on the
\* sparse path alike.
C15_RpeArguments ==
  \A r \in AttentionCalls :
    (self.rpe /\ r.status = "ok") => r.ctx.rpe_args = <<Len(r.query), Len(r.key)>>

PathEvents(r) ==
  {i \in 1..Len(r.events) : r.events[i].op \in {"attention", "sparse_attention"}}

\* C16: every attention call runs exactly one of the dense and the sparse
\* path, the dense one iff the layer's attention type is "global"; the sparse
\* path applies no softmax and no dropout of the engine and hands each query
\* row to the sparse capability as it is, the dense path applies both.
C16_DenseSparseDispatch ==
  \A r \in AttentionCalls :
    r.status = "ok" =>
      /\ Cardinality(PathEvents(r)) = 1
      /\ r.ctx.path = (IF self.attention_type = "global" THEN "attention"
                       ELSE "sparse_attention")
      /\ \A i \in PathEvents(r) : r.events[i].op = r.ctx.path
      /\ Len(r.ctx.rows) = Len(r.query)
      /\ \A i \in 1..Len(r.query) : r.ctx.rows[i].q = r.query[i]
      /\ r.ctx.softmax = (r.ctx.path = "attention")
      /\ r.ctx.dropout = (r.ctx.path = "attention")

\* C16 witness: a layer of a sparse attention type other than "local" ran
\* its self-attention on the sparse path.
C16_Witness ==
  /\ self.attention_type = "sparse_fixed" /\ call.res.attention.status = "ok"
  /\ call.res.attention.ctx.path = "sparse_attention"
  /\ ~call.res.attention.ctx.softmax

IsPrefix(p, q) == Len(p) <= Len(q) /\ SubSeq(q, 1, Len(p)) = p

\* the cache a call of the layer hands to its attention sublayers
Supplied == PastUsed(call.layer_past_arg, call.before)

\* C17: in every attention call that is given a non-empty cache the keys and
\* values attended to are the cached rows followed by the newly computed
\* ones, in use-cache mode they are what the call returns as the updated
\* cache, and after every call of a use-cache layer the cache it was given
\* is a prefix of the cache it holds.
C17_CacheAppendOrder ==
  /\ \A r \in AttentionCalls :
       (r.status = "ok" /\ r.past.set /\ numel(r.past) > 0) =>
         /\ r.key = r.past.key \o r.new_key
         /\ r.value = r.past.value
                      \o [i \in 1..Len(r.new_key) |-> [r.new_key[i] EXCEPT !.rot = NoRot]]
         /\ self.use_cache => r.present = Stack(r.key, r.value)
  /\ (self.use_cache /\ call.op = "forward") =>
       /\ IsPrefix(Supplied.key, layer_past.key)
       /\ IsPrefix(Supplied.value, layer_past.value)

\* C17 witness: a use-cache layer was called with a non-empty cache and holds
\* a longer one.
C17_Witness ==
  /\ self.use_cache /\ call.op = "forward" /\ call.res.status = "ok"
  /\ Len(Supplied.key) > 0
  /\ Len(layer_past.key) > Len(Supplied.key)
  /\ call.res.attention.key = Supplied.key \o call.res.attention.new_key

Norms == {"input_layernorm", "post_attention_layernorm",
          "post_cross_attention_layernorm"}

\* the normalization instances the last call applied, in order
NormEvents ==
  SelectSeq(call.res.events, LAMBDA e : e.mod = "layer" /\ e.op \in Norms)

\* the values a normalization instance was applied to
NormArgs(op) == {NormEvents[i].val : i \in {j \in 1..Len(NormEvents) : NormEvents[j].op = op}}

\* C18: in both topologies the MLP reads the output of
\* post_attention_layernorm when the layer has no cross-attention and of
\* post_cross_attention_layernorm when it has; then post_attention_layernorm
\* feeds the cross-attention only; self-attention reads input_layernorm; and
\* no instance is applied twice in a call.
C18_NormInstances ==
  Completed =>
    /\ [i \in 1..Len(NormEvents) |-> NormEvents[i].op] =
         (IF do_crossattn(self)
          THEN <<"input_layernorm", "post_attention_layernorm",
                 "post_cross_attention_layernorm">>
          ELSE <<"input_layernorm", "post_attention_layernorm">>)
    /\ ReadBy("attention", "query_key_value") =
         {input_layernorm(v) : v \in NormArgs("input_layernorm")}
    /\ IF do_crossattn(self)
       THEN /\ ReadBy("cross_attention", "query") =
                 {post_attention_layernorm(v) : v \in NormArgs("post_attention_layernorm")}
            /\ ReadBy("mlp", "dense_h_to_4h") =
                 {post_cross_attention_layernorm(v) :
                    v \in NormArgs("post_cross_attention_layernorm")}
       ELSE ReadBy("mlp", "dense_h_to_4h") =
              {post_attention_layernorm(v) : v \in NormArgs("post_attention_layernorm")}

\* C18 witness: a layer with cross-attention completed a call in which three
\* normalization instances were applied, the MLP reading the third.
C18_Witness ==
  /\ Completed /\ do_crossattn(self) /\ Len(NormEvents) = 3
  /\ ReadBy("mlp", "dense_h_to_4h") =
       {post_cross_attention_layernorm(NormEvents[3].val)}

====
